---- MODULE Spec2Model ----
(***************************************************************************)
(* A model of the form/chat demo application:                              *)
(*   - the server route that asks an upstream service for a WebSocket URL  *)
(*     (POST of the /connect proxy and POST of /api/start),                *)
(*   - the usePipecatClient hook that bridges SDK callbacks to UI state,   *)
(*   - the page's connect handler.                                         *)
(* The external SDK and the upstream server are environments: their        *)
(* outcomes are nondeterministic choices.                                  *)
(***************************************************************************)
EXTENDS Integers, Sequences, FiniteSets, TLC

VARIABLES
    request,    \* the HTTP request the route handler receives
    upstream,   \* what the upstream /connect call will do
    response,   \* the handler's answer ("none" before it ran)
    \* ---- usePipecatClient: React state
    client,         \* the hook's current client: a client id, 0 for null
    isConnected,
    isConnecting,
    isBotReady,
    isBotSpeaking,
    isUserSpeaking,
    messages,       \* the message log: the type of each message, in order
    error,          \* null (<<>>) or <<context, text>> for `${context}: ${text}`
    \* ---- usePipecatClient: refs and closures
    audioContext,   \* audioContextRef.current is set
    rendered,       \* client and isConnected as the last committed render saw them
    calls,          \* the hook's async method calls in flight
    \* ---- the SDK clients the hook created
    sdk,            \* client id -> connection status ("none": not created)
    last,           \* the hook call that settled in the last step, if one did
    \* ---- Page
    endpoint,               \* the dialog's endpoint field
    initialPrompt,          \* the dialog's prompt field
    showConnectionDialog,
    toast,                  \* the toast the last handler showed
    hookCalls,              \* the hook methods the page has invoked, in order
    sdkStarts               \* the arguments of the SDK's startBotAndConnect calls

proxyVars == <<request, upstream, response>>

pageVars == <<endpoint, initialPrompt, showConnectionDialog, toast, hookCalls,
              sdkStarts>>

hookVars == <<client, isConnected, isConnecting, isBotReady, isBotSpeaking,
              isUserSpeaking, messages, error, audioContext,
              rendered, calls, sdk, last>>

vars == <<request, upstream, response, client, isConnected, isConnecting,
          isBotReady, isBotSpeaking, isUserSpeaking, messages, error,
          audioContext, rendered, calls, sdk, last, endpoint, initialPrompt,
          showConnectionDialog, toast, hookCalls, sdkStarts>>

(***************************************************************************)
(* JavaScript values that occur in the routes.  Strings are TLA+ strings;  *)
(* undefined and null are two reserved strings.                            *)
(***************************************************************************)
Undefined == "<undefined>"
Null == "<null>"

\* JavaScript truthiness of a JSON field value (string, null or undefined).
Truthy(v) == v \notin {Undefined, Null, ""}

\* JavaScript a || b.
JsOr(a, b) == IF Truthy(a) THEN a ELSE b

PIPECAT_SERVER_URL == "https://manjujayamurali--skills-assessment-quiz-bot-fastapi-app.modal.run/connect"
FALLBACK_WS_URL == "wss://manjujayamurali--skills-assessment-quiz-bot-fastapi-app.modal.run/ws"
fallbackWsUrl == "wss://manjujayamurali--pipecat-websocket-bot-create-server.modal.run/ws"

\* The URL strings an upstream answer may carry in a field.
UrlValues == {"wss://a/ws", "wss://b/ws"}
FieldValues == {Undefined, Null, ""} \cup UrlValues

ContentTypes == {Undefined, "application/json", "application/json; charset=utf-8", "text/plain"}
\* absent body, text that is no JSON, the JSON text null, a JSON object
RequestBodies == {"absent", "malformed", "null", "object"}
Requests == [contentType : ContentTypes, body : RequestBodies]

\* What the upstream call does: fetch throws, the timeout aborts it, it
\* answers with a status and a body that is no JSON, JSON null, a JSON value
\* that is no object, or a JSON object with the three URL fields.
UpstreamStatuses == {200, 204, 404, 500}
UpstreamFailures ==
    [kind : {"throws", "timeout"}]
UpstreamAnswers ==
    [kind : {"answer"}, status : UpstreamStatuses,
     json : {"invalid", "null", "number"}]
    \cup
    [kind : {"answer"}, status : UpstreamStatuses, json : {"object"},
     ws_url : FieldValues, wsUrl : FieldValues, websocket_url : FieldValues]
Upstreams == UpstreamFailures \cup UpstreamAnswers

\* response.ok of fetch: a status in 200..299.
ResponseOk(up) == up.status >= 200 /\ up.status <= 299

NoResponse == [handler |-> "none"]

\* NextResponse.json(body, init): the status defaults to 200.
\* fallback is the body's fallback key, upstreamCalled whether fetch was reached.
JsonResponse(handler, status, wsUrl, isFallback, called) ==
    [handler |-> handler, status |-> status, wsUrl |-> wsUrl,
     fallback |-> isFallback, upstreamCalled |-> called]

\* The request body as the /connect proxy reads it: request.json() only for
\* a JSON content type; a parse failure leaves the empty object.
ConnectBody(req) ==
    IF req.contentType # Undefined
       /\ req.contentType \in {"application/json", "application/json; charset=utf-8"}
    THEN (IF req.body = "null" THEN "null"
          ELSE IF req.body = "object" THEN "object"
          ELSE "{}")
    ELSE "{}"

\* The first truthy of ws_url, wsUrl, websocket_url (the last when none is).
ExtractWsUrlSwapped(up) == JsOr(JsOr(up.wsUrl, up.ws_url), up.websocket_url)
ExtractWsUrl(up) == JsOr(JsOr(up.ws_url, up.wsUrl), up.websocket_url)

\* The inner try block of the /connect proxy: the value it returns, or
\* "throw" when it throws into the inner catch.
ConnectFetchStrict(up) ==
    IF up.kind # "answer" THEN "throw"
    ELSE IF up.json = "invalid" THEN "throw"
    ELSE IF up.json = "null" THEN "throw"
    ELSE IF up.json = "number" THEN Undefined
    ELSE ExtractWsUrl(up)
ConnectFetch(up) ==
    IF up.kind # "answer" THEN "throw"
    ELSE IF ~ResponseOk(up) THEN "throw"
    ELSE IF up.json = "invalid" THEN "throw"
    ELSE IF up.json = "null" THEN "throw"
    ELSE IF up.json = "number" THEN Undefined
    ELSE ExtractWsUrl(up)

\* POST of the /connect proxy.
ConnectPOST(req, up) ==
    LET body == ConnectBody(req)
        got == ConnectFetch(up)
    IN  IF got = "throw"
        THEN JsonResponse("connect", 200, FALLBACK_WS_URL, TRUE, TRUE)
        ELSE IF Truthy(got)
        THEN JsonResponse("connect", 200, got, FALSE, TRUE)
        ELSE JsonResponse("connect", 200, FALLBACK_WS_URL, FALSE, TRUE)

\* POST of /api/start: request.json().catch(() => ({})) and then the
\* destructuring of the body, which throws for the JSON value null.
StartBody(req) ==
    IF req.body = "null" THEN "null"
    ELSE IF req.body = "object" THEN "object"
    ELSE "{}"

StartPOST(req, up) ==
    IF StartBody(req) = "null"
    THEN JsonResponse("start", 500, Undefined, FALSE, FALSE)
    ELSE IF up.kind # "answer"
    THEN JsonResponse("start", 200, fallbackWsUrl, FALSE, TRUE)
    ELSE IF ~ResponseOk(up)
    THEN JsonResponse("start", 200, fallbackWsUrl, FALSE, TRUE)
    ELSE IF up.json \in {"invalid", "null"}
    THEN JsonResponse("start", 200, fallbackWsUrl, FALSE, TRUE)
    ELSE IF up.json = "number" \/ ~Truthy(up.wsUrl)
    THEN JsonResponse("start", 200, fallbackWsUrl, FALSE, TRUE)
    ELSE JsonResponse("start", 200, up.wsUrl, FALSE, TRUE)


(***************************************************************************)
(* usePipecatClient: the state after the first render.                     *)
(***************************************************************************)
\* Bounds of the model.
MaxClients == 2     \* clients the hook creates in one run
MaxCalls == 1       \* async hook calls in flight at once
MaxMessages == 2    \* messages in the log

NoClient == 0
ClientIds == 1..MaxClients
CallIds == 1..MaxCalls

NoError == <<>>
\* A call in flight: the method, the await it is suspended at and the client
\* it awaits (the one its closure captured, or the one it created).
Call(op, pc, c) == [op |-> op, pc |-> pc, cl |-> c]
NoCall == Call("none", "none", NoClient)
\* How a call settled: resolved or rejected, and whether it caught an error.
Settled(op, outcome, threw) == [op |-> op, outcome |-> outcome, threw |-> threw]
NoLast == Settled("none", "none", FALSE)

\* useState initial values, refs and the first render.
HookIdle ==
    /\ client = NoClient
    /\ isConnected = FALSE
    /\ isConnecting = FALSE
    /\ isBotReady = FALSE
    /\ isBotSpeaking = FALSE
    /\ isUserSpeaking = FALSE
    /\ messages = <<>>
    /\ error = NoError
    /\ audioContext = FALSE
    /\ rendered = [client |-> NoClient, isConnected |-> FALSE]
    /\ calls = [k \in CallIds |-> NoCall]
    /\ sdk = [c \in ClientIds |-> "none"]
    /\ last = NoLast

(***************************************************************************)
(* Page: the text fields hold strings of characters, of which only being   *)
(* whitespace or not matters to the page.                                  *)
(***************************************************************************)
MaxLen == 2     \* characters in a text field

Chars == {" ", "x"}
Strings == UNION {[1..n -> Chars] : n \in 0..MaxLen}

\* String.prototype.trim().
RECURSIVE TrimStart(_)
TrimStart(str) ==
    IF str # <<>> /\ Head(str) = " " THEN TrimStart(Tail(str)) ELSE str

RECURSIVE TrimEnd(_)
TrimEnd(str) ==
    IF str # <<>> /\ str[Len(str)] = " "
    THEN TrimEnd(SubSeq(str, 1, Len(str) - 1))
    ELSE str

Trim(str) == TrimEnd(TrimStart(str))

NoToast == [kind |-> "none", text |-> ""]
Toast(kind, text) == [kind |-> kind, text |-> text]

\* useState initial values of Page: both fields start with a text without
\* whitespace, the dialog is closed.
PageIdle ==
    /\ endpoint = <<"x">>
    /\ initialPrompt = <<"x">>
    /\ showConnectionDialog = FALSE
    /\ toast = NoToast
    /\ hookCalls = <<>>
    /\ sdkStarts = <<>>

ProxyInit ==
    /\ request \in Requests
    /\ upstream \in Upstreams
    /\ response = NoResponse
    /\ HookIdle
    /\ PageIdle

\* A request arrives at the /connect proxy and is answered.
HandleConnectPOST ==
    /\ response = NoResponse
    /\ response' = ConnectPOST(request, upstream)
    /\ UNCHANGED <<request, upstream>>
    /\ UNCHANGED <<hookVars, pageVars>>

\* A request arrives at /api/start and is answered.
HandleStartPOST ==
    /\ response = NoResponse
    /\ response' = StartPOST(request, upstream)
    /\ UNCHANGED <<request, upstream>>
    /\ UNCHANGED <<hookVars, pageVars>>

ProxyNext ==
    \/ HandleConnectPOST
    \/ HandleStartPOST

SpecProxy == ProxyInit /\ [][ProxyNext]_vars

(***************************************************************************)
(* Claims about the routes.                                                *)
(***************************************************************************)
\* The upstream call failed in one of the ways the proxy guards against:
\* fetch threw, the timeout aborted it, the status is no 2xx, the body is no
\* JSON, or the JSON carries none of the three URL fields with a value.
UpstreamFails(up) ==
    \/ up.kind \in {"throws", "timeout"}
    \/ up.status < 200
    \/ up.status > 299
    \/ up.json \in {"invalid", "null", "number"}
    \/ /\ up.json = "object"
       /\ \A v \in {up.ws_url, up.wsUrl, up.websocket_url} : v \in {Undefined, Null, ""}

FallbackOf(handler) == IF handler = "connect" THEN FALLBACK_WS_URL ELSE fallbackWsUrl

\* C1: when the upstream call a POST handler made fails in any way, the
\* handler answers with status 200 and wsUrl equal to its hardcoded fallback.
C1_FallbackOnFailure ==
    (response.handler # "none" /\ response.upstreamCalled /\ UpstreamFails(upstream))
        => (response.status = 200 /\ response.wsUrl = FallbackOf(response.handler))

C1_Witness ==
    /\ response.handler = "connect"
    /\ upstream.kind = "answer"
    /\ upstream.status = 500
    /\ upstream.json = "object"
    /\ upstream.ws_url \in UrlValues
    /\ response.wsUrl = FALLBACK_WS_URL

\* C2: every POST, whatever the request and whatever the upstream does, is
\* answered with a body whose wsUrl is non-empty.
C2_AlwaysWsUrl ==
    response.handler # "none" => Truthy(response.wsUrl)

\* The first value of a sequence that is neither missing nor empty.
RECURSIVE FirstNonEmpty(_)
FirstNonEmpty(vs) ==
    IF vs = <<>> THEN Undefined
    ELSE IF Head(vs) \notin {Undefined, Null, ""} THEN Head(vs)
    ELSE FirstNonEmpty(Tail(vs))

UpstreamOkObject(up) ==
    up.kind = "answer" /\ up.status >= 200 /\ up.status <= 299 /\ up.json = "object"

\* C3: for a 2xx JSON answer the /connect proxy responds 200 with the first
\* non-empty of ws_url, wsUrl, websocket_url (in this order), and with the
\* fallback URL only when all three are missing or empty.
C3_FirstNonEmptyField ==
    (response.handler = "connect" /\ UpstreamOkObject(upstream)) =>
        LET first == FirstNonEmpty(<<upstream.ws_url, upstream.wsUrl, upstream.websocket_url>>)
        IN  /\ response.status = 200
            /\ first # Undefined => response.wsUrl = first
            /\ response.wsUrl = FALLBACK_WS_URL => first = Undefined

C3_Witness ==
    /\ response.handler = "connect"
    /\ UpstreamOkObject(upstream)
    /\ upstream.ws_url = ""
    /\ upstream.wsUrl = "wss://b/ws"
    /\ upstream.websocket_url = "wss://a/ws"
    /\ response.wsUrl = "wss://b/ws"

(***************************************************************************)
(* usePipecatClient: helpers.                                              *)
(***************************************************************************)
\* Values the hook catches or is handed as errors.
ErrorObject(text) == [kind |-> "Error", text |-> text]
ErrorString(text) == [kind |-> "string", text |-> text]
OpaqueError == [kind |-> "opaque", text |-> ""]
\* What an SDK call may throw or reject with.
SdkErrors == {ErrorObject("sdk failure"), OpaqueError}

\* handleError: the text for the error value.
ErrorMessageOf(err) ==
    IF err.kind = "Error" /\ err.text # "" THEN err.text
    ELSE IF err.kind = "string" THEN err.text
    ELSE IF err.kind = "data" /\ err.text # "" THEN err.text
    ELSE "An unexpected error occurred"

\* handleError: `${context}: ${errorMessage}`.
ErrorText(context, err) == <<context, ErrorMessageOf(err)>>

\* addMessage appends to the log.
CanAddMessages(n) == Len(messages) + n <= MaxMessages
AddMessage(type) == messages' = Append(messages, type)

\* handleError(err, context): setError and one system message.  (The timer
\* it sets is ErrorTimerFires.)
HandleError(err, context) ==
    /\ CanAddMessages(1)
    /\ error' = ErrorText(context, err)
    /\ AddMessage("system")

\* The first free slot for a call, and the next client id.
HasFreeCall == \E k \in CallIds : calls[k] = NoCall
FreeCall == CHOOSE k \in CallIds : calls[k] = NoCall /\ \A j \in 1..(k - 1) : calls[j] # NoCall
HasFreeClient == \E c \in ClientIds : sdk[c] = "none"
NewClientId == CHOOSE c \in ClientIds : sdk[c] = "none" /\ \A j \in 1..(c - 1) : sdk[j] # "none"

\* The last committed render is up to date with the state its closures read.
InSync == rendered = [client |-> client, isConnected |-> isConnected]

\* client.disconnect() of the SDK: a connecting or connected client starts
\* to disconnect; its promise settles later.
SdkDisconnect(s, c) ==
    IF s[c] \in {"connecting", "connected"} THEN [s EXCEPT ![c] = "disconnecting"] ELSE s

\* client.connect() of the SDK.
SdkConnect(s, c) ==
    IF s[c] = "connected" THEN s ELSE [s EXCEPT ![c] = "connecting"]

\* A promise of the SDK's disconnect may resolve once the client is
\* disconnected; it may reject at any time.
DisconnectSettles(c, outcome) ==
    outcome = "resolved" => sdk[c] = "disconnected"

(***************************************************************************)
(* usePipecatClient: startBotAndConnect.                                   *)
(***************************************************************************)
\* initializeClient() and what follows it in startBotAndConnect: either the
\* transport or client constructor throws (handleError twice, once in
\* initializeClient and once in the catch of startBotAndConnect), or the new
\* client is created, becomes the hook's client and is asked to connect.
InitializeAndStartWith(k, connecting, err, rethrow) ==
    \/ /\ CanAddMessages(2)
       /\ messages' = messages \o <<"system", "system">>
       /\ error' = ErrorText("Start Bot And Connect",
                             ErrorObject("Failed to initialize WebSocket transport"))
       /\ isConnecting' = FALSE
       /\ calls' = [calls EXCEPT ![k] = NoCall]
       /\ last' = Settled("startBotAndConnect",
                          IF rethrow THEN "rejected" ELSE "resolved", TRUE)
       /\ UNCHANGED <<client, sdk>>
    \/ /\ HasFreeClient
       /\ client' = NewClientId
       /\ sdk' = [sdk EXCEPT ![NewClientId] = "connecting"]
       /\ isConnecting' = connecting
       /\ error' = err
       /\ calls' = [calls EXCEPT ![k] =
                        Call("startBotAndConnect", "awaitStart", NewClientId)]
       /\ last' = NoLast
       /\ UNCHANGED <<messages>>

InitializeAndStart(k, connecting, err) ==
    InitializeAndStartWith(k, connecting, err, FALSE)

\* The call: setIsConnecting(true), setError(null), then the existing client
\* (the one the closure captured) is disconnected and awaited, or, with no
\* client, the new one is created at once.
StartBotAndConnectCall ==
    /\ HasFreeCall
    /\ IF rendered.client # NoClient
       THEN /\ isConnecting' = TRUE
            /\ error' = NoError
            /\ sdk' = SdkDisconnect(sdk, rendered.client)
            /\ calls' = [calls EXCEPT ![FreeCall] =
                            Call("startBotAndConnect", "awaitDisconnect", rendered.client)]
            /\ last' = NoLast
            /\ UNCHANGED <<client, messages>>
       ELSE InitializeAndStart(FreeCall, TRUE, NoError)
    /\ UNCHANGED <<isConnected, isBotReady, isBotSpeaking, isUserSpeaking,
                   audioContext, rendered>>
    /\ UNCHANGED <<proxyVars, pageVars>>

\* await client.disconnect().catch(console.error) returns either way.
StartBotAndConnectAfterDisconnect(k) ==
    /\ calls[k].op = "startBotAndConnect"
    /\ calls[k].pc = "awaitDisconnect"
    /\ \E outcome \in {"resolved", "rejected"} :
        /\ DisconnectSettles(calls[k].cl, outcome)
        /\ InitializeAndStart(k, isConnecting, error)
    /\ UNCHANGED <<isConnected, isBotReady, isBotSpeaking, isUserSpeaking,
                   audioContext, rendered>>
    /\ UNCHANGED <<proxyVars, pageVars>>

\* await newClient.startBotAndConnect(...) settles: it resolves when the
\* client is connected; or it rejects into the catch, which calls
\* handleError and setIsConnecting(false) and swallows the error.
StartBotAndConnectSettledWith(k, rethrow, keepConnecting) ==
    /\ calls[k].op = "startBotAndConnect"
    /\ calls[k].pc = "awaitStart"
    /\ \/ /\ sdk[calls[k].cl] = "connected"
          /\ last' = Settled("startBotAndConnect", "resolved", FALSE)
          /\ UNCHANGED <<isConnecting, error, messages, sdk>>
       \/ /\ \E err \in SdkErrors : HandleError(err, "Start Bot And Connect")
          /\ isConnecting' = (keepConnecting /\ isConnecting)
          /\ sdk' = IF sdk[calls[k].cl] = "connecting"
                    THEN [sdk EXCEPT ![calls[k].cl] = "disconnected"]
                    ELSE sdk
          /\ last' = Settled("startBotAndConnect",
                             IF rethrow THEN "rejected" ELSE "resolved", TRUE)
    /\ calls' = [calls EXCEPT ![k] = NoCall]
    /\ UNCHANGED <<client, isConnected, isBotReady, isBotSpeaking, isUserSpeaking,
                   audioContext, rendered>>
    /\ UNCHANGED <<proxyVars, pageVars>>

StartBotAndConnectRethrows(k) == StartBotAndConnectSettledWith(k, TRUE, FALSE)
StartBotAndConnectSettled(k) == StartBotAndConnectSettledWith(k, FALSE, FALSE)

(***************************************************************************)
(* usePipecatClient: disconnect.                                           *)
(***************************************************************************)
\* The end of disconnect: setClient(null) and every flag reset.
DisconnectFinishWith(threw, keepError) ==
    /\ client' = NoClient
    /\ isConnected' = FALSE
    /\ isConnecting' = FALSE
    /\ isBotReady' = FALSE
    /\ isBotSpeaking' = FALSE
    /\ isUserSpeaking' = FALSE
    /\ error' = IF keepError THEN error ELSE NoError
    /\ last' = Settled("disconnect", "resolved", threw)
    /\ UNCHANGED <<messages, rendered, sdk>>

DisconnectKeepsError(threw) == DisconnectFinishWith(threw, TRUE)
DisconnectFinish(threw) == DisconnectFinishWith(threw, FALSE)

\* After the SDK part: close the audio context if there is one, else finish.
DisconnectAudio(k, threw) ==
    IF audioContext
    THEN /\ calls' = [calls EXCEPT ![k] = Call("disconnect", "awaitClose", NoClient)]
         /\ last' = NoLast
         /\ UNCHANGED <<client, isConnected, isConnecting, isBotReady, isBotSpeaking,
                        isUserSpeaking, error, messages, rendered, sdk,
                        audioContext>>
    ELSE /\ calls' = [calls EXCEPT ![k] = NoCall]
         /\ DisconnectFinish(threw)
         /\ UNCHANGED audioContext

\* The call: client.disconnect() of the captured client is awaited.
DisconnectCall ==
    /\ HasFreeCall
    /\ IF rendered.client # NoClient
       THEN /\ sdk' = SdkDisconnect(sdk, rendered.client)
            /\ calls' = [calls EXCEPT ![FreeCall] =
                            Call("disconnect", "awaitDisconnect", rendered.client)]
            /\ last' = NoLast
            /\ UNCHANGED <<client, isConnected, isConnecting, isBotReady, isBotSpeaking,
                           isUserSpeaking, error, messages, rendered,
                           audioContext>>
       ELSE DisconnectAudio(FreeCall, FALSE)
    /\ UNCHANGED <<proxyVars, pageVars>>

\* await client.disconnect() settles; a rejection is caught and logged.
DisconnectAfterSdk(k) ==
    /\ calls[k].op = "disconnect"
    /\ calls[k].pc = "awaitDisconnect"
    /\ \E outcome \in {"resolved", "rejected"} :
        /\ DisconnectSettles(calls[k].cl, outcome)
        /\ DisconnectAudio(k, outcome = "rejected")
    /\ UNCHANGED <<proxyVars, pageVars>>

\* await audioContextRef.current.close() settles; the ref is cleared only
\* when it resolved.
DisconnectAfterClose(k) ==
    /\ calls[k].op = "disconnect"
    /\ calls[k].pc = "awaitClose"
    /\ \E outcome \in {"resolved", "rejected"} :
        /\ audioContext' = IF outcome = "resolved" THEN FALSE ELSE audioContext
        /\ DisconnectFinish(outcome = "rejected")
    /\ calls' = [calls EXCEPT ![k] = NoCall]
    /\ UNCHANGED <<proxyVars, pageVars>>

(***************************************************************************)
(* usePipecatClient: connect and startBot.                                 *)
(***************************************************************************)
\* connect(connectParams): without a client or a wsUrl it throws before any
\* state is touched; else setIsConnecting(true), setError(null) and the
\* SDK's connect is awaited.
ConnectCall(hasWsUrl) ==
    /\ IF rendered.client = NoClient \/ ~hasWsUrl
       THEN /\ last' = Settled("connect", "rejected", FALSE)
            /\ UNCHANGED <<isConnecting, error, sdk, calls>>
       ELSE /\ HasFreeCall
            /\ isConnecting' = TRUE
            /\ error' = NoError
            /\ sdk' = SdkConnect(sdk, rendered.client)
            /\ calls' = [calls EXCEPT ![FreeCall] =
                            Call("connect", "awaitConnect", rendered.client)]
            /\ last' = NoLast
    /\ UNCHANGED <<client, isConnected, isBotReady, isBotSpeaking, isUserSpeaking,
                   messages, audioContext, rendered>>
    /\ UNCHANGED <<proxyVars, pageVars>>

\* await client.connect() settles; a rejection is handled and rethrown.
ConnectSettledWith(k, setsConnected) ==
    /\ calls[k].op = "connect"
    /\ calls[k].pc = "awaitConnect"
    /\ \/ /\ sdk[calls[k].cl] = "connected"
          /\ isConnected' = (isConnected \/ setsConnected)
          /\ last' = Settled("connect", "resolved", FALSE)
          /\ UNCHANGED <<isConnecting, error, messages, sdk>>
       \/ /\ \E err \in SdkErrors : HandleError(err, "Connect")
          /\ isConnecting' = FALSE
          /\ sdk' = IF sdk[calls[k].cl] = "connecting"
                    THEN [sdk EXCEPT ![calls[k].cl] = "disconnected"]
                    ELSE sdk
          /\ last' = Settled("connect", "rejected", TRUE)
          /\ UNCHANGED isConnected
    /\ calls' = [calls EXCEPT ![k] = NoCall]
    /\ UNCHANGED <<client, isBotReady, isBotSpeaking, isUserSpeaking,
                   audioContext, rendered>>
    /\ UNCHANGED <<proxyVars, pageVars>>

ConnectSettledSetsConnected(k) == ConnectSettledWith(k, TRUE)
ConnectSettled(k) == ConnectSettledWith(k, FALSE)

\* startBot(endpoint, requestData, headers): setError(null), then the SDK's
\* startBot is awaited.
StartBotCall ==
    /\ IF rendered.client = NoClient
       THEN /\ last' = Settled("startBot", "rejected", FALSE)
            /\ UNCHANGED <<error, calls>>
       ELSE /\ HasFreeCall
            /\ error' = NoError
            /\ calls' = [calls EXCEPT ![FreeCall] =
                            Call("startBot", "awaitStartBot", rendered.client)]
            /\ last' = NoLast
    /\ UNCHANGED <<client, isConnected, isConnecting, isBotReady, isBotSpeaking,
                   isUserSpeaking, messages, audioContext, rendered, sdk>>
    /\ UNCHANGED <<proxyVars, pageVars>>

StartBotSettled(k) ==
    /\ calls[k].op = "startBot"
    /\ calls[k].pc = "awaitStartBot"
    /\ \/ /\ last' = Settled("startBot", "resolved", FALSE)
          /\ UNCHANGED <<error, messages>>
       \/ /\ \E err \in SdkErrors : HandleError(err, "Start Bot")
          /\ last' = Settled("startBot", "rejected", TRUE)
    /\ calls' = [calls EXCEPT ![k] = NoCall]
    /\ UNCHANGED <<client, isConnected, isConnecting, isBotReady, isBotSpeaking,
                   isUserSpeaking, audioContext, rendered, sdk>>
    /\ UNCHANGED <<proxyVars, pageVars>>

(***************************************************************************)
(* usePipecatClient: the methods that touch only error and the log.        *)
(***************************************************************************)
\* A step that changes at most error and the log.
OnlyErrorChanges ==
    /\ UNCHANGED <<client, isConnected, isConnecting, isBotReady, isBotSpeaking,
                   isUserSpeaking, audioContext, rendered, sdk, calls>>
    /\ UNCHANGED <<proxyVars, pageVars>>

NoErrorChange == UNCHANGED <<error, messages>>

NotConnectedClientOnly == rendered.client = NoClient

\* The guard of sendMessage, sendRequest and appendToContext, as their
\* closures see it.
NotConnected == rendered.client = NoClient \/ ~rendered.isConnected

\* disconnectBot, the device and the advanced methods: with no client they
\* return (initDevices throws), else they call the SDK and pass what it
\* throws to handleError under their context.
ClientMethodContexts ==
    {"Disconnect Bot", "Initialize Devices", "Get Microphones", "Get Cameras",
     "Get Speakers", "Update Microphone", "Update Camera", "Update Speaker",
     "Enable Microphone", "Disable Microphone", "Enable Camera", "Disable Camera",
     "Enable Screen Share", "Disable Screen Share", "Get Tracks",
     "Register Function Handler", "Set Log Level"}

\* The methods among them that rethrow what they caught.
Rethrows(context) == context = "Initialize Devices"

ClientMethod(context) ==
    /\ IF rendered.client = NoClient
       THEN /\ last' = Settled("clientMethod",
                               IF Rethrows(context) THEN "rejected" ELSE "resolved", FALSE)
            /\ NoErrorChange
       ELSE \/ /\ last' = Settled("clientMethod", "resolved", FALSE)
               /\ NoErrorChange
            \/ /\ \E err \in SdkErrors : HandleError(err, context)
               /\ last' = Settled("clientMethod",
                                  IF Rethrows(context) THEN "rejected" ELSE "resolved", TRUE)
    /\ OnlyErrorChanges

\* How sendMessage, sendRequest or appendToContext settled: also the SDK
\* method it called ("none" when it called none) and what the caller gets:
\* the text of the rejection, or "true"/"false" from appendToContext.
SettledCall(op, outcome, threw, sdkCall, value) ==
    [op |-> op, outcome |-> outcome, threw |-> threw, sdkCall |-> sdkCall,
     value |-> value]

\* sendMessage(msgType, data).
SendMessage ==
    /\ IF NotConnected
       THEN /\ HandleError(ErrorString("Not connected to bot"), "Send Message")
            /\ last' = SettledCall("sendMessage", "resolved", TRUE, "none", "")
       ELSE \/ /\ last' = SettledCall("sendMessage", "resolved", FALSE,
                                      "sendClientMessage", "")
               /\ NoErrorChange
            \/ /\ \E err \in SdkErrors : HandleError(err, "Send Message")
               /\ last' = SettledCall("sendMessage", "resolved", TRUE,
                                      "sendClientMessage", "")
    /\ OnlyErrorChanges

\* sendRequest(msgType, data, timeout): rethrows what it handled.
SendRequest ==
    /\ IF NotConnected
       THEN /\ HandleError(ErrorObject("Not connected to bot"), "Send Request")
            /\ last' = SettledCall("sendRequest", "rejected", TRUE, "none",
                                   "Not connected to bot")
       ELSE \/ /\ last' = SettledCall("sendRequest", "resolved", FALSE,
                                      "sendClientRequest", "")
               /\ NoErrorChange
            \/ /\ \E err \in SdkErrors :
                    /\ HandleError(err, "Send Request")
                    /\ last' = SettledCall("sendRequest", "rejected", TRUE,
                                           "sendClientRequest", err.text)
    /\ OnlyErrorChanges

\* appendToContext(context): resolves to true or false, never rejects.  The
\* SDK's appendToContext is used when the client has one, else
\* sendClientMessage('context', ...).
AppendToContextWith(hasAppend, trueOnThrow) ==
    /\ LET sdkCall == IF hasAppend THEN "appendToContext" ELSE "sendClientMessage"
       IN  IF NotConnected
           THEN /\ HandleError(ErrorString("Not connected to bot"), "Append Context")
                /\ last' = SettledCall("appendToContext", "resolved", TRUE, "none",
                                       "false")
           ELSE \/ /\ last' = SettledCall("appendToContext", "resolved", FALSE,
                                          sdkCall, "true")
                   /\ NoErrorChange
                \/ /\ \E err \in SdkErrors : HandleError(err, "Append Context")
                   /\ last' = SettledCall("appendToContext", "resolved", TRUE, sdkCall,
                                          IF trueOnThrow THEN "true" ELSE "false")
    /\ OnlyErrorChanges

AppendToContextOptimistic == \E hasAppend \in BOOLEAN : AppendToContextWith(hasAppend, TRUE)
AppendToContext == \E hasAppend \in BOOLEAN : AppendToContextWith(hasAppend, FALSE)

\* clearMessages().
ClearMessages ==
    /\ messages # <<>>
    /\ messages' = <<>>
    /\ last' = NoLast
    /\ UNCHANGED <<error>>
    /\ OnlyErrorChanges

\* clearError().
ClearError ==
    /\ error # NoError
    /\ error' = NoError
    /\ last' = NoLast
    /\ UNCHANGED <<messages>>
    /\ OnlyErrorChanges

\* The timer a handleError set 10 s ago fires: setError(null).  Whenever
\* error is set, the timer of the handleError that set it is still pending.
ErrorTimerFires ==
    /\ error # NoError
    /\ error' = NoError
    /\ last' = NoLast
    /\ UNCHANGED messages
    /\ OnlyErrorChanges

\* React commits a render: the methods' closures see the current client and
\* isConnected, and when the client changed the cleanup of the effect on
\* [client] disconnects the client of the previous render (not awaited).
Render ==
    /\ ~InSync
    /\ rendered' = [client |-> client, isConnected |-> isConnected]
    /\ sdk' = IF rendered.client # client /\ rendered.client # NoClient
              THEN SdkDisconnect(sdk, rendered.client)
              ELSE sdk
    /\ last' = NoLast
    /\ UNCHANGED <<client, isConnected, isConnecting, isBotReady, isBotSpeaking,
                   isUserSpeaking, messages, error, audioContext, calls>>
    /\ UNCHANGED <<proxyVars, pageVars>>

(***************************************************************************)
(* The callbacks initializeClient registers, fired by the SDK for a client *)
(* c the hook created.  The SDK fires a callback only in a connection      *)
(* status that fits it, and none for a client that is disconnected: a      *)
(* connection that goes down is disconnecting until onDisconnected.        *)
(***************************************************************************)
\* What a callback leaves alone besides the state it sets.
\* The last step was the callback, fired with this argument.
Fired(callback, arg) == [op |-> callback, outcome |-> arg, threw |-> FALSE]

CallbackFrame ==
    /\ last' = NoLast
    /\ UNCHANGED <<client, rendered>>
    /\ UNCHANGED <<proxyVars, pageVars>>

Closing(c) == sdk[c] \in {"connecting", "connected", "disconnecting"}

CbConnected(c) ==
    /\ sdk[c] \in {"connecting", "connected"}
    /\ CanAddMessages(1)
    /\ sdk' = [sdk EXCEPT ![c] = "connected"]
    /\ UNCHANGED calls
    /\ isConnected' = TRUE
    /\ isConnecting' = FALSE
    /\ error' = NoError
    /\ AddMessage("system")
    /\ UNCHANGED <<isBotReady, isBotSpeaking, isUserSpeaking, audioContext>>
    /\ CallbackFrame

CbDisconnected(c) ==
    /\ Closing(c)
    /\ CanAddMessages(1)
    /\ sdk' = [sdk EXCEPT ![c] = "disconnected"]
    /\ isConnected' = FALSE
    /\ isConnecting' = FALSE
    /\ isBotReady' = FALSE
    /\ isBotSpeaking' = FALSE
    /\ isUserSpeaking' = FALSE
    /\ AddMessage("system")
    /\ UNCHANGED <<error, audioContext, calls>>
    /\ CallbackFrame

\* The transport states the SDK reports.
TransportStates ==
    {"initializing", "connecting", "connected", "ready", "disconnecting",
     "disconnected", "failed", "error"}

\* The connection status of the client after it reported a transport state.
SdkAfterTransport(s, c, state) ==
    IF state \in {"connected", "ready"} THEN [s EXCEPT ![c] = "connected"]
    ELSE IF state \in {"disconnected", "failed", "error"} THEN [s EXCEPT ![c] = "disconnecting"]
    ELSE s

\* The statuses in which the SDK reports a transport state.
TransportFits(c, state) ==
    IF state \in {"initializing", "connecting"} THEN sdk[c] = "connecting"
    ELSE IF state = "connected" THEN sdk[c] \in {"connecting", "connected"}
    ELSE IF state = "ready" THEN sdk[c] = "connected"
    ELSE IF state = "disconnecting" THEN sdk[c] = "disconnecting"
    ELSE Closing(c)

TransportFlagsWithoutFailed(state, flags) ==
    IF state = "connecting" THEN [flags EXCEPT !.isConnecting = TRUE]
    ELSE IF state = "connected"
    THEN [flags EXCEPT !.isConnected = TRUE, !.isConnecting = FALSE]
    ELSE IF state = "disconnecting" THEN [flags EXCEPT !.isConnecting = FALSE]
    ELSE IF state = "disconnected"
    THEN [flags EXCEPT !.isConnected = FALSE, !.isConnecting = FALSE, !.isBotReady = FALSE]
    ELSE flags

\* onTransportStateChanged: the switch on the state.
TransportFlags(state, flags) ==
    IF state = "connecting" THEN [flags EXCEPT !.isConnecting = TRUE]
    ELSE IF state = "connected"
    THEN [flags EXCEPT !.isConnected = TRUE, !.isConnecting = FALSE]
    ELSE IF state = "disconnecting" THEN [flags EXCEPT !.isConnecting = FALSE]
    ELSE IF state \in {"disconnected", "failed"}
    THEN [flags EXCEPT !.isConnected = FALSE, !.isConnecting = FALSE, !.isBotReady = FALSE]
    ELSE flags

\* seen: the step records the callback and its argument in last.
TransportStateChanged(c, state, seen) ==
    /\ TransportFits(c, state)
    /\ sdk' = SdkAfterTransport(sdk, c, state)
    /\ UNCHANGED calls
    /\ LET now == TransportFlags(state,
                    [isConnected |-> isConnected, isConnecting |-> isConnecting,
                     isBotReady |-> isBotReady])
       IN  /\ isConnected' = now.isConnected
           /\ isConnecting' = now.isConnecting
           /\ isBotReady' = now.isBotReady
    /\ UNCHANGED <<isBotSpeaking, isUserSpeaking, messages, error,
                   audioContext>>
    /\ last' = IF seen THEN Fired("onTransportStateChanged", state) ELSE NoLast
    /\ UNCHANGED <<client, rendered>>
    /\ UNCHANGED <<proxyVars, pageVars>>

CbTransportStateChanged(c, state) == TransportStateChanged(c, state, FALSE)

OnTransportStateChanged(c, state) == TransportStateChanged(c, state, TRUE)

CbBotReady(c) ==
    /\ sdk[c] = "connected"
    /\ CanAddMessages(1)
    /\ isBotReady' = TRUE
    /\ AddMessage("system")
    /\ UNCHANGED <<isConnected, isConnecting, isBotSpeaking, isUserSpeaking, error,
                   audioContext, sdk, calls>>
    /\ CallbackFrame

CbBotConnected(c) ==
    /\ sdk[c] = "connected"
    /\ CanAddMessages(1)
    /\ AddMessage("system")
    /\ UNCHANGED <<isConnected, isConnecting, isBotReady, isBotSpeaking, isUserSpeaking,
                   error, audioContext, sdk, calls>>
    /\ CallbackFrame

CbBotDisconnected(c) ==
    /\ sdk[c] \in {"connected", "disconnecting"}
    /\ CanAddMessages(1)
    /\ isBotReady' = FALSE
    /\ isBotSpeaking' = FALSE
    /\ AddMessage("system")
    /\ UNCHANGED <<isConnected, isConnecting, isUserSpeaking, error,
                   audioContext, sdk, calls>>
    /\ CallbackFrame

\* onUserTranscript, onBotTranscript, onBotLlmText, onBotTtsText: a message
\* of the speaker's type when the text is not blank (and, for the user,
\* final); nothing otherwise.
CbTranscript(c, type, shown) ==
    /\ sdk[c] = "connected"
    /\ IF shown THEN CanAddMessages(1) /\ AddMessage(type) ELSE UNCHANGED messages
    /\ UNCHANGED <<isConnected, isConnecting, isBotReady, isBotSpeaking, isUserSpeaking,
                   error, audioContext, sdk, calls>>
    /\ CallbackFrame

\* onBotStartedSpeaking / onBotStoppedSpeaking.
CbBotSpeaking(c, speaking) ==
    /\ sdk[c] = "connected"
    /\ isBotSpeaking' = speaking
    /\ UNCHANGED <<isConnected, isConnecting, isBotReady, isUserSpeaking, messages,
                   error, audioContext, sdk, calls>>
    /\ CallbackFrame

\* onUserStartedSpeaking / onUserStoppedSpeaking.
CbUserSpeaking(c, speaking) ==
    /\ sdk[c] = "connected"
    /\ isUserSpeaking' = speaking
    /\ UNCHANGED <<isConnected, isConnecting, isBotReady, isBotSpeaking, messages,
                   error, audioContext, sdk, calls>>
    /\ CallbackFrame

\* onError: handleError, and for a fatal error the connection flags reset.
\* A fatal error takes the client's connection down.
CbError(c, fatal) ==
    /\ sdk[c] \in {"connecting", "connected", "disconnecting"}
    /\ \E err \in {ErrorString("sdk failure"), ErrorString("Connection error occurred")} :
          HandleError(err, "Client Error")
    /\ IF fatal
       THEN /\ isConnecting' = FALSE
            /\ isConnected' = FALSE
            /\ isBotReady' = FALSE
            /\ sdk' = [sdk EXCEPT ![c] = "disconnecting"]
       ELSE UNCHANGED <<isConnecting, isConnected, isBotReady, sdk>>
    /\ UNCHANGED <<isBotSpeaking, isUserSpeaking, audioContext, calls>>
    /\ CallbackFrame

\* onMessageError and onDeviceError: handleError under their context.
CbOtherError(c, context) ==
    /\ sdk[c] \in {"connecting", "connected", "disconnecting"}
    /\ HandleError(ErrorString(IF context = "Message Error"
                               THEN "Message processing failed"
                               ELSE "Device error (unknown): "), context)
    /\ UNCHANGED <<isConnected, isConnecting, isBotReady, isBotSpeaking, isUserSpeaking,
                   audioContext, sdk, calls>>
    /\ CallbackFrame

\* onTrackStarted = handleBotAudio: a remote audio track creates the audio
\* context if there is none yet.
CbTrackStarted(c) ==
    /\ sdk[c] = "connected"
    /\ ~audioContext
    /\ audioContext' = TRUE
    /\ UNCHANGED <<isConnected, isConnecting, isBotReady, isBotSpeaking, isUserSpeaking,
                   messages, error, sdk, calls>>
    /\ CallbackFrame

\* Any callback of client c.
SdkCallback(c) ==
    \/ CbConnected(c)
    \/ CbDisconnected(c)
    \/ \E state \in TransportStates : CbTransportStateChanged(c, state)
    \/ CbBotReady(c)
    \/ CbBotConnected(c)
    \/ CbBotDisconnected(c)
    \/ \E type \in {"user", "bot"}, shown \in BOOLEAN : CbTranscript(c, type, shown)
    \/ \E speaking \in BOOLEAN : CbBotSpeaking(c, speaking)
    \/ \E speaking \in BOOLEAN : CbUserSpeaking(c, speaking)
    \/ \E fatal \in BOOLEAN : CbError(c, fatal)
    \/ \E context \in {"Message Error", "Device Error"} : CbOtherError(c, context)
    \/ CbTrackStarted(c)

(***************************************************************************)
(* The hook's specification.                                               *)
(***************************************************************************)
HookInit ==
    /\ request = [contentType |-> Undefined, body |-> "absent"]
    /\ upstream = [kind |-> "throws"]
    /\ response = NoResponse
    /\ HookIdle
    /\ PageIdle

\* The UI calls a method of the connection's life cycle, or clears what the
\* hook shows.
LifecycleCall ==
    \/ StartBotAndConnectCall
    \/ DisconnectCall
    \/ ClearMessages
    \/ ClearError

\* The same calls, made once the render has caught up with the state.
LifecycleCallSync ==
    \/ InSync /\ StartBotAndConnectCall
    \/ InSync /\ DisconnectCall
    \/ InSync /\ ClearMessages
    \/ InSync /\ ClearError

\* The UI calls one of the other methods of the hook's return value, once
\* the render has caught up with the state.
MethodCallSync ==
    \/ \E hasWsUrl \in BOOLEAN : InSync /\ ConnectCall(hasWsUrl)
    \/ InSync /\ StartBotCall
    \/ \E context \in ClientMethodContexts : InSync /\ ClientMethod(context)
    \/ InSync /\ SendMessage
    \/ InSync /\ SendRequest
    \/ InSync /\ AppendToContext

\* A startBotAndConnect or disconnect in flight continues after its await.
LifecycleContinue ==
    \E k \in CallIds :
        \/ StartBotAndConnectAfterDisconnect(k)
        \/ StartBotAndConnectSettled(k)
        \/ DisconnectAfterSdk(k)

\* A disconnect in flight continues after closing the audio context.
AudioContinue == \E k \in CallIds : DisconnectAfterClose(k)

\* A connect or startBot in flight continues after its await.
MethodContinue ==
    \E k \in CallIds :
        \/ ConnectSettled(k)
        \/ StartBotSettled(k)

\* What happens without the UI: the SDK fires a callback, a timer of
\* handleError fires, React commits a render.
Environment ==
    \/ \E c \in ClientIds : SdkCallback(c)
    \/ ErrorTimerFires
    \/ Render

\* The callbacks that report the connection itself.
ConnectionCallback(c) ==
    \/ CbConnected(c)
    \/ CbDisconnected(c)
    \/ \E state \in TransportStates : CbTransportStateChanged(c, state)
    \/ CbBotReady(c)

\* The connection's life cycle with every callback; the UI may call a method
\* through the closures of the last committed render at any time.
HookNext == LifecycleCall \/ LifecycleContinue \/ AudioContinue \/ Environment

SpecHook == HookInit /\ [][HookNext]_vars

\* The same, with the UI calling only once the render has caught up with the
\* state, as a user who acts on what the page shows does.
HookNextSync ==
    \/ LifecycleCallSync
    \/ LifecycleContinue
    \/ AudioContinue
    \/ Environment

SpecHookSync == HookInit /\ [][HookNextSync]_vars

\* Every method of the hook's return value, called once the render has
\* caught up with the state, with the callbacks that report the connection.
MethodsNext ==
    \/ LifecycleCallSync
    \/ MethodCallSync
    \/ LifecycleContinue
    \/ MethodContinue
    \/ \E c \in ClientIds : ConnectionCallback(c)
    \/ ErrorTimerFires
    \/ Render

SpecHookMethods == HookInit /\ [][MethodsNext]_vars

(***************************************************************************)
(* Page: the connection dialog.                                            *)
(***************************************************************************)
\* What usePipecatClient returns: the names Page can destructure from it.
HookReturn ==
    {"client", "isConnected", "isConnecting", "isBotReady", "isBotSpeaking",
     "isUserSpeaking", "messages", "error",
     "startBot", "connect", "startBotAndConnect", "disconnect", "disconnectBot",
     "sendMessage", "sendRequest", "appendToContext",
     "initDevices", "getAllMics", "getAllCams", "getAllSpeakers", "updateMic",
     "updateCam", "updateSpeaker", "enableMic", "enableCam", "enableScreenShare",
     "selectedMic", "selectedCam", "selectedSpeaker", "isMicEnabled",
     "isCamEnabled", "isSharingScreen",
     "tracks", "registerFunctionCallHandler", "setLogLevel",
     "clearMessages", "clearError"}

\* The prompt used when the field is blank, as one token.
DefaultPrompt == <<"You are a helpful voice assistant.">>

\* The request data handleConnect builds.
RequestData(prompt) ==
    [initial_prompt |-> IF Trim(prompt) # <<>> THEN Trim(prompt) ELSE DefaultPrompt,
     llm_provider |-> "openai"]

\* onChange of the endpoint field and of the prompt field.
SetEndpoint(v) ==
    /\ endpoint' = v
    /\ UNCHANGED <<initialPrompt, showConnectionDialog, toast, hookCalls, sdkStarts>>
    /\ UNCHANGED <<proxyVars, hookVars>>

SetInitialPrompt(v) ==
    /\ initialPrompt' = v
    /\ UNCHANGED <<endpoint, showConnectionDialog, toast, hookCalls, sdkStarts>>
    /\ UNCHANGED <<proxyVars, hookVars>>

\* onOpenChange of the dialog, which is rendered while isConnected is false;
\* its trigger is disabled while isConnecting.
OnOpenChange(open) ==
    /\ ~isConnected
    /\ open => ~isConnecting
    /\ showConnectionDialog' = open
    /\ UNCHANGED <<endpoint, initialPrompt, toast, hookCalls, sdkStarts>>
    /\ UNCHANGED <<proxyVars, hookVars>>

\* handleConnect: a blank endpoint is refused; else connectToBot, as
\* destructured from the hook's return value, is called inside the try.  The
\* hook returns no connectToBot, so the call throws a TypeError, which the
\* catch shows as an error toast.  With a connectToBot of the hook, the call
\* would reach the SDK's startBotAndConnect, close the dialog and show the
\* success toast.
HandleConnect ==
    /\ IF Trim(endpoint) = <<>>
       THEN /\ toast' = Toast("error", "Please enter an endpoint URL")
            /\ UNCHANGED <<showConnectionDialog, hookCalls, sdkStarts>>
       ELSE IF "connectToBot" \in HookReturn
       THEN /\ hookCalls' = Append(hookCalls, "connectToBot")
            /\ sdkStarts' = Append(sdkStarts,
                                   [endpoint |-> Trim(endpoint),
                                    requestData |-> RequestData(initialPrompt)])
            /\ showConnectionDialog' = FALSE
            /\ toast' = Toast("success", "Connecting to voice assistant...")
       ELSE /\ toast' = Toast("error", "connectToBot is not a function")
            /\ UNCHANGED <<showConnectionDialog, hookCalls, sdkStarts>>
    /\ UNCHANGED <<endpoint, initialPrompt>>
    /\ UNCHANGED <<proxyVars, hookVars>>

PageInit ==
    /\ request = [contentType |-> Undefined, body |-> "absent"]
    /\ upstream = [kind |-> "throws"]
    /\ response = NoResponse
    /\ HookIdle
    /\ PageIdle

PageNext ==
    \/ \E v \in Strings : SetEndpoint(v)
    \/ \E v \in Strings : SetInitialPrompt(v)
    \/ \E open \in BOOLEAN : OnOpenChange(open)
    \/ HandleConnect

SpecPage == PageInit /\ [][PageNext]_vars

(***************************************************************************)
(* Properties of the hook and the page.                                    *)
(***************************************************************************)
\* C4: isConnected rises only in a step of onConnected or of
\* onTransportStateChanged with state 'connected', and isBotReady rises only
\* in a step of onBotReady; no step of a method the UI calls, nor of its
\* continuation, raises either flag.
C4_OnlyCallbacksRaiseFlags ==
    [][/\ (~isConnected /\ isConnected') =>
             \E c \in ClientIds : CbConnected(c) \/ CbTransportStateChanged(c, "connected")
       /\ (~isBotReady /\ isBotReady') => \E c \in ClientIds : CbBotReady(c)]_vars

\* connect() resolved, and both flags are up because the callbacks raised
\* them.
C4_Witness ==
    /\ last = Settled("connect", "resolved", FALSE)
    /\ isConnected
    /\ isBotReady

\* C5: handleConnect with a non-blank endpoint calls a method of the hook
\* and reaches the SDK's startBotAndConnect exactly once, with the trimmed
\* endpoint and the request data of the trimmed (or default) prompt; with a
\* blank endpoint it calls no hook method and makes no SDK call.
C5_ConnectStartsOnce ==
    [][HandleConnect =>
          IF Trim(endpoint) # <<>>
          THEN /\ Len(hookCalls') = Len(hookCalls) + 1
               /\ sdkStarts' = Append(sdkStarts,
                                      [endpoint |-> Trim(endpoint),
                                       requestData |-> RequestData(initialPrompt)])
          ELSE /\ hookCalls' = hookCalls
               /\ sdkStarts' = sdkStarts]_vars

\* C6: a callback of a client that was created and is no longer the hook's
\* client leaves the five flags as they are.
C6_LateCallbacksIgnored ==
    [][\A c \in ClientIds :
          (sdk[c] # "none" /\ c # client /\ SdkCallback(c)) =>
              UNCHANGED <<isConnected, isConnecting, isBotReady, isBotSpeaking,
                          isUserSpeaking>>]_vars

\* C7: at most one created client is not yet disconnected, and a connected
\* client is the hook's client.
C7_OneLiveClient ==
    /\ Cardinality({c \in ClientIds : sdk[c] \notin {"none", "disconnected"}}) <= 1
    /\ \A c \in ClientIds : sdk[c] = "connected" => c = client

\* A step of disconnect(): a disconnect call starts, moves to its next await
\* or settles.
DisconnectStep ==
    \/ last'.op = "disconnect"
    \/ \E k \in CallIds :
          calls'[k] # calls[k] /\ "disconnect" \in {calls[k].op, calls'[k].op}

\* C8: a disconnect() that settles has resolved, with client null, the five
\* flags false and error null, and no step of disconnect() changes the log.
C8_DisconnectResets ==
    [][/\ last'.op = "disconnect" =>
             /\ last'.outcome = "resolved"
             /\ client' = NoClient
             /\ ~isConnected' /\ ~isConnecting' /\ ~isBotReady'
             /\ ~isBotSpeaking' /\ ~isUserSpeaking'
             /\ error' = NoError
       /\ DisconnectStep => messages' = messages]_vars

\* disconnect() resolved although the SDK's disconnect or the close of the
\* audio context threw, and the log still holds what the callbacks wrote.
C8_Witness ==
    /\ last = Settled("disconnect", "resolved", TRUE)
    /\ messages # <<>>
    /\ client = NoClient
    /\ error = NoError

\* A startBotAndConnect attempt in flight that has neither been reported
\* established nor failed: it still awaits the old client's disconnect, or
\* its new client is still connecting.
Attempting(k) ==
    /\ calls[k].op = "startBotAndConnect"
    /\ \/ calls[k].pc = "awaitDisconnect"
       \/ calls[k].pc = "awaitStart" /\ sdk[calls[k].cl] = "connecting"

\* C9: while a startBotAndConnect attempt is in flight and neither
\* established nor failed, isConnecting is true.
C9_ConnectingDuringAttempt ==
    (\E k \in CallIds : Attempting(k)) => isConnecting

\* C10: a startBotAndConnect that settles has resolved; when it caught a
\* failure, error is a text under the context 'Start Bot And Connect',
\* isConnecting is false and the step appended system messages to the log.
C10_StartBotAndConnectResolves ==
    [][last'.op = "startBotAndConnect" =>
          /\ last'.outcome = "resolved"
          /\ last'.threw =>
                /\ error' # NoError
                /\ error'[1] = "Start Bot And Connect"
                /\ ~isConnecting'
                /\ Len(messages') > Len(messages)
                /\ SubSeq(messages', 1, Len(messages)) = messages
                /\ \A i \in (Len(messages) + 1)..Len(messages') : messages'[i] = "system"]_vars

\* The SDK's startBotAndConnect failed and the call resolved all the same.
C10_Witness ==
    /\ last = Settled("startBotAndConnect", "resolved", TRUE)
    /\ error = <<"Start Bot And Connect", "sdk failure">>
    /\ ~isConnecting
    /\ messages # <<>>

(***************************************************************************)
(* Page with the hook that returns connectToBot (the earlier version of    *)
(* usePipecatClient).  Its onConnected and onDisconnected set the same     *)
(* state as CbConnected and CbDisconnected.                                *)
(***************************************************************************)
\* What the earlier usePipecatClient returns.
ConnectToBotHookReturn ==
    {"client", "isConnected", "isConnecting", "isBotReady", "isBotSpeaking",
     "isUserSpeaking", "messages", "error", "connectToBot", "disconnect",
     "sendMessage", "sendRequest", "appendToContext", "clearMessages"}

\* handleConnect's continuation after await connectToBot(...): the promise
\* resolved, so the dialog is closed and the success toast shown; had it
\* rejected, the catch would show an error toast.
AfterConnectToBot(outcome) ==
    IF outcome = "resolved"
    THEN /\ showConnectionDialog' = FALSE
         /\ toast' = Toast("success", "Connecting to voice assistant...")
    ELSE /\ toast' = Toast("error", "Failed to connect")
         /\ UNCHANGED showConnectionDialog

\* The catch of connectToBot: setError(err.message || 'Failed to connect to
\* bot'), setIsConnecting(false), one system message; nothing is rethrown,
\* so the promise resolves and handleConnect continues.
ConnectToBotFails(k, err) ==
    /\ CanAddMessages(1)
    /\ error' = <<IF err.kind = "Error" /\ err.text # "" THEN err.text
                  ELSE "Failed to connect to bot">>
    /\ isConnecting' = FALSE
    /\ AddMessage("system")
    /\ calls' = [calls EXCEPT ![k] = NoCall]
    /\ last' = Settled("connectToBot", "resolved", TRUE)
    /\ AfterConnectToBot("resolved")

\* initializeClient(), setClient(newClient) and the SDK's startBotAndConnect
\* with the endpoint and the request data handleConnect passed.
ConnectToBotStart(k) ==
    /\ HasFreeClient
    /\ client' = NewClientId
    /\ sdk' = [sdk EXCEPT ![NewClientId] = "connecting"]
    /\ sdkStarts' = Append(sdkStarts,
                           [endpoint |-> Trim(endpoint),
                            requestData |-> RequestData(initialPrompt)])
    /\ calls' = [calls EXCEPT ![k] = Call("connectToBot", "awaitStart", NewClientId)]
    /\ last' = NoLast

\* handleConnect with this hook: a blank endpoint is refused; else
\* connectToBot runs: setIsConnecting(true), setError(null), the existing
\* client (as the closure captured it) is disconnected and awaited, or the
\* new client is created at once.
HandleConnectToBot ==
    /\ "connectToBot" \in ConnectToBotHookReturn
    /\ IF Trim(endpoint) = <<>>
       THEN /\ toast' = Toast("error", "Please enter an endpoint URL")
            /\ last' = NoLast
            /\ UNCHANGED <<showConnectionDialog, hookCalls, sdkStarts, client,
                           isConnecting, error, sdk, calls>>
       ELSE /\ HasFreeCall
            /\ HasFreeClient
            /\ hookCalls' = Append(hookCalls, "connectToBot")
            /\ isConnecting' = TRUE
            /\ error' = NoError
            /\ IF rendered.client # NoClient
               THEN /\ sdk' = SdkDisconnect(sdk, rendered.client)
                    /\ calls' = [calls EXCEPT ![FreeCall] =
                                    Call("connectToBot", "awaitDisconnect", rendered.client)]
                    /\ last' = NoLast
                    /\ UNCHANGED <<client, sdkStarts>>
               ELSE ConnectToBotStart(FreeCall)
            /\ UNCHANGED <<showConnectionDialog, toast>>
    /\ UNCHANGED <<endpoint, initialPrompt, isConnected, isBotReady, isBotSpeaking,
                   isUserSpeaking, messages, audioContext, rendered>>
    /\ UNCHANGED proxyVars

\* await client.disconnect() settles: a rejection goes to the catch.
ConnectToBotAfterDisconnect(k) ==
    /\ calls[k].op = "connectToBot"
    /\ calls[k].pc = "awaitDisconnect"
    /\ \/ /\ DisconnectSettles(calls[k].cl, "resolved")
          /\ ConnectToBotStart(k)
          /\ UNCHANGED <<isConnecting, error, messages, showConnectionDialog, toast>>
       \/ /\ \E err \in SdkErrors : ConnectToBotFails(k, err)
          /\ UNCHANGED <<client, sdk, sdkStarts>>
    /\ UNCHANGED <<endpoint, initialPrompt, hookCalls, isConnected, isBotReady,
                   isBotSpeaking, isUserSpeaking, audioContext, rendered>>
    /\ UNCHANGED proxyVars

\* await newClient.startBotAndConnect(...) settles: it resolves when the
\* client is connected, or it rejects into the catch.
ConnectToBotSettled(k) ==
    /\ calls[k].op = "connectToBot"
    /\ calls[k].pc = "awaitStart"
    /\ \/ /\ sdk[calls[k].cl] = "connected"
          /\ calls' = [calls EXCEPT ![k] = NoCall]
          /\ last' = Settled("connectToBot", "resolved", FALSE)
          /\ AfterConnectToBot("resolved")
          /\ UNCHANGED <<isConnecting, error, messages, sdk>>
       \/ /\ \E err \in SdkErrors : ConnectToBotFails(k, err)
          /\ sdk' = IF sdk[calls[k].cl] = "connecting"
                    THEN [sdk EXCEPT ![calls[k].cl] = "disconnected"]
                    ELSE sdk
    /\ UNCHANGED <<endpoint, initialPrompt, hookCalls, sdkStarts, client, isConnected,
                   isBotReady, isBotSpeaking, isUserSpeaking, audioContext, rendered>>
    /\ UNCHANGED proxyVars

\* The page with this hook; the prompt field keeps its initial text.
ConnectToBotNext ==
    \/ \E v \in Strings : SetEndpoint(v)
    \/ \E open \in BOOLEAN : OnOpenChange(open)
    \/ HandleConnectToBot
    \/ \E k \in CallIds : ConnectToBotAfterDisconnect(k)
    \/ \E k \in CallIds : ConnectToBotSettled(k)
    \/ \E c \in ClientIds : CbConnected(c)
    \/ \E c \in ClientIds : CbDisconnected(c)
    \/ Render

SpecPageConnectToBot == PageInit /\ [][ConnectToBotNext]_vars

\* C11: when the connection attempt handleConnect started has failed, the
\* page shows an error toast, no success toast, and leaves the dialog as it
\* is; the step that closes the dialog or shows the success toast belongs
\* to an attempt that did not fail.
C11_FailureShowsErrorToast ==
    [][last'.op = "connectToBot" =>
          /\ last'.threw =>
                /\ toast'.kind = "error"
                /\ showConnectionDialog' = showConnectionDialog
          /\ (toast'.kind = "success" \/ (showConnectionDialog /\ ~showConnectionDialog'))
                => ~last'.threw]_vars

(***************************************************************************)
(* Properties of the messaging methods.                                    *)
(***************************************************************************)
MessagingMethods == {"sendMessage", "sendRequest", "appendToContext"}

\* The context under which each messaging method reports to handleError.
MessagingContext(op) ==
    IF op = "sendMessage" THEN "Send Message"
    ELSE IF op = "sendRequest" THEN "Send Request"
    ELSE "Append Context"

C14_BotReadyImpliesConnected == isBotReady => isConnected

\* C15: whenever isConnected is false, neither isBotSpeaking nor
\* isUserSpeaking is true.
C15_NoSpeakingWhenDisconnected == ~isConnected => (~isBotSpeaking /\ ~isUserSpeaking)

(***************************************************************************)
(* The transport state callback, observed.                                 *)
(***************************************************************************)
\* The life cycle called from the committed render, with the callbacks that
\* report the connection, the bot's speech and errors; each transport state
\* change is recorded in last.
TransportNext ==
    \/ LifecycleCallSync
    \/ LifecycleContinue
    \/ \E c \in ClientIds : CbConnected(c)
    \/ \E c \in ClientIds : CbDisconnected(c)
    \/ \E c \in ClientIds, state \in TransportStates : OnTransportStateChanged(c, state)
    \/ \E c \in ClientIds : CbBotReady(c)
    \/ \E c \in ClientIds, speaking \in BOOLEAN : CbBotSpeaking(c, speaking)
    \/ \E c \in ClientIds, fatal \in BOOLEAN : CbError(c, fatal)
    \/ Render

SpecHookTransport == HookInit /\ [][TransportNext]_vars

\* C16: onTransportStateChanged sets, for 'connecting', isConnecting true;
\* for 'connected', isConnected true and isConnecting false; for
\* 'disconnecting', isConnecting false; for 'disconnected' and 'failed',
\* isConnected, isConnecting and isBotReady false; for any other state no
\* flag; and it changes no other flag, no message, not error, not client.
C16_TransportStateMapping ==
    [][last'.op = "onTransportStateChanged" =>
          /\ last'.outcome = "connecting" =>
                /\ isConnecting'
                /\ UNCHANGED <<isConnected, isBotReady>>
          /\ last'.outcome = "connected" =>
                /\ isConnected' /\ ~isConnecting'
                /\ UNCHANGED isBotReady
          /\ last'.outcome = "disconnecting" =>
                /\ ~isConnecting'
                /\ UNCHANGED <<isConnected, isBotReady>>
          /\ last'.outcome \in {"disconnected", "failed"} =>
                ~isConnected' /\ ~isConnecting' /\ ~isBotReady'
          /\ last'.outcome \notin {"connecting", "connected", "disconnecting",
                                   "disconnected", "failed"} =>
                UNCHANGED <<isConnected, isConnecting, isBotReady>>
          /\ UNCHANGED <<isBotSpeaking, isUserSpeaking, messages, error, client>>]_vars

\* The transport reported 'failed' while the bot was speaking and after
\* messages were appended: the three flags are down, the rest is kept.
C16_Witness ==
    /\ last = Fired("onTransportStateChanged", "failed")
    /\ ~isConnected /\ ~isConnecting /\ ~isBotReady
    /\ isBotSpeaking
    /\ Len(messages) = 2

====
